---- MODULE Spec2Model ----
(***************************************************************************)
(* Model of the %vsql magic of ipython-vsql (src/src/vsql/vmagic.py):      *)
(* get_connection_dict and VerticaSqlMagic.execute.                        *)
(*                                                                         *)
(* One invocation of execute is followed step by step (pc): entry and      *)
(* parsing (lines 110-115), evaluation of the connect arguments (118,      *)
(* get_connection_dict), the driver's connect (118), pd.read_sql (119),    *)
(* the exit of the with block (118-121) and the handler                    *)
(* except Exception (123-126).  Lines 128-164 follow a try statement       *)
(* whose body returns and whose handler either returns or raises, so no    *)
(* execution reaches them; they have no action here.                       *)
(*                                                                         *)
(* The driver (vertica_python), pandas and the notebook are collaborators: *)
(* connect and read_sql either succeed or raise, nondeterministically.     *)
(***************************************************************************)
EXTENDS Naturals, Sequences, FiniteSets

\* Bound of the model: number of invocations of the magic in one run.
MaxCalls == 2

(***************************************************************************)
(* Values                                                                  *)
(***************************************************************************)
\* Environment variables that get_connection_dict asserts, in assert order.
MandatoryVars == <<"VERTICA_HOST", "VERTICA_USER", "VERTICA_PASSWORD", "VERTICA_DB">>

MandatorySet == {MandatoryVars[i] : i \in 1..Len(MandatoryVars)}

\* The message of the assert statement guarding each mandatory variable
\* (without the backquotes around the option's name).
AssertMessage(var) ==
    CASE var = "VERTICA_HOST"     -> "Ensure that vertica.host is set in your environment."
      [] var = "VERTICA_USER"     -> "Ensure that vertica.user is set in your environment."
      [] var = "VERTICA_PASSWORD" -> "Ensure that vertica.password is set in your environment."
      [] var = "VERTICA_DB"       -> "Ensure that vertica.db is set in your environment."

\* Names of the notebook namespace that the model distinguishes.
Names == {"r", "a", "b", "x"}

\* Python values: shape says what kind of object, columns its column names.
Unset     == [shape |-> "unset", columns |-> <<>>]
None      == [shape |-> "None", columns |-> <<>>]
DataFrame(cols) == [shape |-> "DataFrame", columns |-> cols]
Column(c) == [shape |-> "column", columns |-> <<c>>]

\* Column lists a query of the model can produce.
QueryColumns == {<<"a", "b">>, <<"b">>}

\* Exceptions: type and message (what print(e) shows).
NoExc == [type |-> "none", msg |-> ""]
Exc(t, m) == [type |-> t, msg |-> m]

\* The classes imported from sqlalchemy.exc: the recognized database errors.
DbErrors == {"ProgrammingError", "OperationalError"}

\* What pd.read_sql can raise in the model: database errors and another one.
ReadSqlErrors == DbErrors \cup {"ValueError"}

\* No result_var flag on the magic's line.
NoVar == "<none>"

EmptyNs == [k \in Names |-> Unset]

\* dict.update: the keys of e override those of d.
update(d, e) == [k \in Names |-> IF e[k] # Unset THEN e[k] ELSE d[k]]

\* Namespaces the notebook can hold when the magic is called.
InitialNamespaces == {EmptyNs, [EmptyNs EXCEPT !["a"] = DataFrame(<<"x">>)]}

\* Local scopes passed by needs_local_scope.
LocalNamespaces == {EmptyNs, [EmptyNs EXCEPT !["x"] = DataFrame(<<"a">>)]}

\* An invocation: the optional result-variable flag and the SQL text.
Invocations == [result_var : {NoVar, "r"}, sql : {"SELECT"}]

\* vsql.parse.parse: splits an invocation into the SQL and the flags.
parse(inv) == [sql |-> inv.sql, flags |-> [result_var |-> inv.result_var]]

(***************************************************************************)
(* get_connection_dict                                                     *)
(***************************************************************************)
\* Mutant: the assert on VERTICA_HOST is missing.
FirstMissing_nohost(env) ==
    IF \A i \in 2..Len(MandatoryVars) : MandatoryVars[i] \in env
    THEN 0
    ELSE CHOOSE i \in 2..Len(MandatoryVars) :
            /\ MandatoryVars[i] \notin env
            /\ \A j \in 2..(i - 1) : MandatoryVars[j] \in env

\* Index of the first mandatory variable missing from env, 0 when none is.
FirstMissing(env) ==
    IF \A i \in 1..Len(MandatoryVars) : MandatoryVars[i] \in env
    THEN 0
    ELSE CHOOSE i \in 1..Len(MandatoryVars) :
            /\ MandatoryVars[i] \notin env
            /\ \A j \in 1..(i - 1) : MandatoryVars[j] \in env

\* The four asserts, then the dictionary: either the assertion error of the
\* first missing variable, or the connect arguments.
get_connection_dict(env) ==
    IF FirstMissing(env) # 0
    THEN [ok |-> FALSE,
          exc |-> Exc("AssertionError", AssertMessage(MandatoryVars[FirstMissing(env)]))]
    ELSE [ok |-> TRUE, exc |-> NoExc]

(***************************************************************************)
(* State                                                                   *)
(***************************************************************************)
VARIABLES
    environ,            \* os.environ: the mandatory variables that are set
    short_errors,       \* configuration flags of VerticaSqlMagic
    autopandas,
    column_local_vars,
    shell_user_ns,      \* self.shell.user_ns, the notebook's namespace
    calls,              \* invocations started so far
    pc,                 \* position of the current invocation
    parsed,             \* parsed = vsql.parse.parse(...)
    user_ns,            \* local user_ns: copy of the namespace plus local_ns
    ns_at_entry,        \* self.shell.user_ns.copy() taken at entry
    conn,               \* this invocation's connection: none, open, closed
    openConns,          \* connections open in the driver, over all invocations
    connectAttempts,    \* calls of vertica_python.connect in this invocation
    queries,            \* calls of pd.read_sql in this invocation
    closeCalls,         \* times this invocation's connection was closed
    result,             \* result of pd.read_sql
    exc,                \* exception raised inside the try block (e)
    stdout,             \* messages printed by this invocation
    ret                 \* how the invocation ended: return value or raise

vars == <<environ, short_errors, autopandas, column_local_vars, shell_user_ns,
          calls, pc, parsed, user_ns, ns_at_entry, conn, openConns,
          connectAttempts, queries, closeCalls, result, exc, stdout, ret>>

config == <<environ, short_errors, autopandas, column_local_vars>>

Pending == [kind |-> "pending", value |-> Unset, exc |-> NoExc]
Return(v) == [kind |-> "return", value |-> v, exc |-> NoExc]
Raise(e) == [kind |-> "raise", value |-> Unset, exc |-> e]

Init ==
    /\ environ \in SUBSET MandatorySet
    /\ short_errors \in BOOLEAN
    /\ autopandas \in BOOLEAN
    /\ column_local_vars \in BOOLEAN
    /\ shell_user_ns \in InitialNamespaces
    /\ calls = 0
    /\ pc = "idle"
    /\ parsed = parse([result_var |-> NoVar, sql |-> "SELECT"])
    /\ user_ns = EmptyNs
    /\ ns_at_entry = EmptyNs
    /\ conn = "none"
    /\ openConns = 0
    /\ connectAttempts = 0
    /\ queries = 0
    /\ closeCalls = 0
    /\ result = Unset
    /\ exc = NoExc
    /\ stdout = <<>>
    /\ ret = Pending

(***************************************************************************)
(* execute                                                                 *)
(***************************************************************************)
\* Lines 110-115: copy the namespace, merge local_ns, parse the invocation.
execute_enter ==
    /\ pc \in {"idle", "done"}
    /\ calls < MaxCalls
    /\ \E inv \in Invocations, local_ns \in LocalNamespaces :
        /\ ns_at_entry' = shell_user_ns
        /\ user_ns' = update(shell_user_ns, local_ns)
        /\ parsed' = parse(inv)
    /\ calls' = calls + 1
    /\ pc' = "try"
    /\ conn' = "none"
    /\ connectAttempts' = 0
    /\ queries' = 0
    /\ closeCalls' = 0
    /\ result' = Unset
    /\ exc' = NoExc
    /\ stdout' = <<>>
    /\ ret' = Pending
    /\ UNCHANGED <<config, shell_user_ns, openConns>>

\* Line 118, the argument of connect: get_connection_dict() is evaluated
\* first; its AssertionError is raised inside the try block.
connect_arguments ==
    /\ pc = "try"
    /\ IF get_connection_dict(environ).ok
       THEN /\ pc' = "connect"
            /\ exc' = exc
       ELSE /\ pc' = "except"
            /\ exc' = get_connection_dict(environ).exc
    /\ UNCHANGED <<config, shell_user_ns, calls, parsed, user_ns, ns_at_entry,
                   conn, openConns, connectAttempts, queries, closeCalls,
                   result, stdout, ret>>

\* Line 118: vertica_python.connect(...) opens a connection or raises.
vertica_connect ==
    /\ pc = "connect"
    /\ connectAttempts' = connectAttempts + 1
    /\ \/ /\ conn' = "open"
          /\ openConns' = openConns + 1
          /\ pc' = "with_body"
          /\ exc' = exc
       \/ /\ exc' = Exc("ConnectionError", "Failed to establish a connection")
          /\ pc' = "except"
          /\ UNCHANGED <<conn, openConns>>
    /\ UNCHANGED <<config, shell_user_ns, calls, parsed, user_ns, ns_at_entry,
                   queries, closeCalls, result, stdout, ret>>

\* Line 119: pd.read_sql(parsed['sql'], conn) yields a dataframe or raises.
read_sql ==
    /\ pc = "with_body"
    /\ queries' = queries + 1
    /\ \/ \E cols \in QueryColumns :
            /\ result' = DataFrame(cols)
            /\ exc' = exc
       \/ \E t \in ReadSqlErrors :
            /\ exc' = Exc(t, "query failed")
            /\ result' = result
    /\ pc' = "with_exit"
    /\ UNCHANGED <<config, shell_user_ns, calls, parsed, user_ns, ns_at_entry,
                   conn, openConns, connectAttempts, closeCalls, stdout, ret>>

\* Mutant: the connection is closed only when the body succeeded.
connection_exit_leak ==
    /\ pc = "with_exit"
    /\ IF exc = NoExc
       THEN /\ conn' = "closed"
            /\ openConns' = openConns - 1
            /\ closeCalls' = closeCalls + 1
            /\ ret' = Return(result)
            /\ pc' = "done"
       ELSE /\ pc' = "except"
            /\ UNCHANGED <<conn, openConns, closeCalls, ret>>
    /\ UNCHANGED <<config, shell_user_ns, calls, parsed, user_ns, ns_at_entry,
                   connectAttempts, queries, result, exc, stdout>>

\* Mutant: on success the result is bound under its column names and
\* nothing is returned, whatever the configuration says.
connection_exit_bind ==
    /\ pc = "with_exit"
    /\ conn' = "closed"
    /\ openConns' = openConns - 1
    /\ closeCalls' = closeCalls + 1
    /\ IF exc = NoExc
       THEN /\ ret' = Return(None)
            /\ shell_user_ns' =
                 [k \in Names |->
                    IF \E i \in 1..Len(result.columns) : result.columns[i] = k
                    THEN Column(k) ELSE shell_user_ns[k]]
            /\ pc' = "done"
       ELSE /\ pc' = "except"
            /\ UNCHANGED <<ret, shell_user_ns>>
    /\ UNCHANGED <<config, calls, parsed, user_ns, ns_at_entry,
                   connectAttempts, queries, result, exc, stdout>>

\* Lines 118-121, leaving the with block: the connection's __exit__ closes
\* it; then return result completes, or the exception goes to the handler.
connection_exit ==
    /\ pc = "with_exit"
    /\ conn' = "closed"
    /\ openConns' = openConns - 1
    /\ closeCalls' = closeCalls + 1
    /\ IF exc = NoExc
       THEN /\ ret' = Return(result)
            /\ pc' = "done"
       ELSE /\ pc' = "except"
            /\ ret' = ret
    /\ UNCHANGED <<config, shell_user_ns, calls, parsed, user_ns, ns_at_entry,
                   connectAttempts, queries, result, exc, stdout>>

\* Mutant: the handler prints nothing before it fails.
execute_except_silent ==
    /\ pc = "except"
    /\ ret' = Raise(Exc("NameError", "name 'sql' is not defined"))
    /\ pc' = "done"
    /\ UNCHANGED <<config, shell_user_ns, calls, parsed, user_ns, ns_at_entry,
                   conn, openConns, connectAttempts, queries, closeCalls,
                   result, exc, stdout>>

\* Lines 123-126, except Exception as e: print(e); then the argument of the
\* second print names sql, which the module never binds (it imports vsql),
\* so a NameError leaves the handler and return None is not reached.
execute_except ==
    /\ pc = "except"
    /\ stdout' = Append(stdout, exc.msg)
    /\ ret' = Raise(Exc("NameError", "name 'sql' is not defined"))
    /\ pc' = "done"
    /\ UNCHANGED <<config, shell_user_ns, calls, parsed, user_ns, ns_at_entry,
                   conn, openConns, connectAttempts, queries, closeCalls,
                   result, exc>>

Next ==
    \/ execute_enter
    \/ connect_arguments
    \/ vertica_connect
    \/ read_sql
    \/ connection_exit
    \/ execute_except

Spec == Init /\ [][Next]_vars

(***************************************************************************)
(* Properties                                                              *)
(***************************************************************************)
\* The invocation has ended (returned or raised).
Done == pc = "done"

\* The invocation ended without any exception raised inside the try block,
\* after running its query.
Succeeded == Done /\ exc = NoExc /\ queries = 1

\* The invocation ended after a recognized database error in the query.
DbErrorRaised == Done /\ queries = 1 /\ exc.type \in DbErrors

\* The invocation ended after an exception that is no database error.
OtherErrorRaised == Done /\ exc # NoExc /\ exc.type \notin DbErrors

\* The three outcomes of an invocation.
ResultReturned == ret.kind = "return" /\ ret.value # None
NamespaceBound == shell_user_ns # ns_at_entry
ErrorPrinted == Len(stdout) > 0

Count(b) == IF b THEN 1 ELSE 0

\* C1: once an invocation has returned or raised (and before the first one),
\* no connection is open: the one it acquired, if any, has been closed, on
\* the success path and on every error path, after any number of invocations.
C1_ConnectionsReleased ==
    (pc \in {"idle", "done"} \/ ret.kind # "pending") =>
        /\ openConns = 0
        /\ conn # "open"
        /\ (connectAttempts = 1 /\ exc.type # "ConnectionError" => conn = "closed")

\* C1 witness: a later invocation acquired a connection, its query raised,
\* and the invocation has ended with the connection closed.
C1_Witness ==
    /\ Done
    /\ calls > 1
    /\ conn = "closed"
    /\ exc.type \in ReadSqlErrors
    /\ ret.kind = "raise"

\* C2: when an invocation has ended, exactly one of these happened: a result
\* value was returned, the namespace was changed, an error was printed.
C2_ExactlyOneOutcome ==
    Done => Count(ResultReturned) + Count(NamespaceBound) + Count(ErrorPrinted) = 1

\* C2 witness: an invocation ended with an error printed and nothing
\* returned; the query had run.
C2_Witness ==
    /\ Done
    /\ queries = 1
    /\ ErrorPrinted
    /\ ~ResultReturned

\* C3: with a mandatory environment variable missing, an invocation never
\* calls connect, never runs a query and holds no connection; it ends by
\* raising, having printed the message of a missing variable.
C3_MissingVarFailsBeforeConnect ==
    (pc # "idle" /\ ~(MandatorySet \subseteq environ)) =>
        /\ connectAttempts = 0
        /\ queries = 0
        /\ conn = "none"
        /\ pc \in {"try", "except", "done"}
        /\ Done =>
            /\ ret.kind = "raise"
            /\ Len(stdout) = 1
            /\ stdout[1] \in {AssertMessage(v) : v \in MandatorySet \ environ}

\* C3 witness: an invocation without VERTICA_HOST has ended.
C3_Witness ==
    /\ Done
    /\ "VERTICA_HOST" \notin environ
    /\ exc.type = "AssertionError"
    /\ connectAttempts = 0

\* C4: with column_local_vars disabled and no result_var flag, a successful
\* invocation returns the result of the query and leaves the notebook's
\* namespace as it was at entry.
C4_PlainReturn ==
    (Succeeded /\ ~column_local_vars /\ parsed.flags.result_var = NoVar) =>
        /\ ret = Return(result)
        /\ result.shape \notin {"unset", "None"}
        /\ shell_user_ns = ns_at_entry

\* C4 witness: such an invocation has succeeded.
C4_Witness ==
    /\ Succeeded
    /\ ~column_local_vars
    /\ parsed.flags.result_var = NoVar
    /\ ret.kind = "return"

\* C5: with a result_var flag r and column_local_vars disabled, a successful
\* invocation binds r to the whole result in the namespace and returns None.
C5_ResultVarBound ==
    (Succeeded /\ ~column_local_vars /\ parsed.flags.result_var # NoVar) =>
        /\ shell_user_ns[parsed.flags.result_var] = result
        /\ ret = Return(None)

\* C6: with column_local_vars enabled, a successful invocation whose result
\* has the columns a and b binds both names in the namespace and returns None.
C6_ColumnsBound ==
    (Succeeded /\ column_local_vars /\ result.columns = <<"a", "b">>) =>
        /\ shell_user_ns["a"] = Column("a")
        /\ shell_user_ns["b"] = Column("b")
        /\ ret = Return(None)

\* C7: with short_errors enabled, an invocation whose query raised a database
\* error prints one message, returns None without raising, and has closed its
\* connection once.
C7_ShortErrorSwallowed ==
    (DbErrorRaised /\ short_errors) =>
        /\ Len(stdout) = 1
        /\ ret = Return(None)
        /\ closeCalls = 1

\* C8: with short_errors disabled, an invocation whose query raised a database
\* error raises that same error to the caller.
C8_DbErrorReraised ==
    (DbErrorRaised /\ ~short_errors) => ret = Raise(exc)

\* C9: an exception that is no database error is not printed and reaches the
\* caller unchanged, whatever short_errors is.
C9_OtherErrorPropagates ==
    OtherErrorRaised =>
        /\ stdout = <<>>
        /\ ret = Raise(exc)

\* C10: the result of a successful invocation is a dataframe exactly when
\* autopandas is enabled.
C10_ShapeFollowsAutopandas ==
    Succeeded => (result.shape = "DataFrame" <=> autopandas)

====
